---- MODULE Spec2Model ----
(***************************************************************************)
(* Build orchestration of BuilderWeb: the main server's BuildQueue and     *)
(* build routes (server/routes.ts, build-queue, debian-build-service), and *)
(* the Debian build server (debian-server/build-processor.ts and its       *)
(* keystore-generator).                                                    *)
(***************************************************************************)
EXTENDS Integers, Sequences, FiniteSets, TLC

(***************************************************************************)
(* Bounds of the model.                                                    *)
(***************************************************************************)
MaxBuilds == 3        \* build ids 1..MaxBuilds
MaxMainBuilds == 2    \* builds submitted when both servers run
MaxDebBuilds == 2     \* builds submitted to the build server on its own
MaxSlots == 2         \* largest configured maxConcurrentBuilds
MaxClock == 1         \* Date readings 0..MaxClock
MaxProjects == 1      \* project ids 1..MaxProjects
MaxFailStep == 1      \* pipeline steps (1..MaxFailStep) that fail, main server runs
MaxStamp == 2         \* Dates a field is seen to take, one after the other
MaxInFlight == 1      \* status requests of pollBuildStatus in flight
MaxFiles == 1         \* entries of the files array of a build request, 0..MaxFiles
MaxObservers == 3     \* WebSocket clients 1..MaxObservers
MaxSubscribers == 1   \* WebSocket clients while builds run

DefaultMaxConcurrentBuilds == 3   \* export const buildQueue = new BuildQueue(3)

BuildIds == 1..MaxBuilds
Priorities == {0, 5}  \* req.body.priority || 0

ProjectIds == 1..MaxProjects

Observers == 1..MaxObservers

VARIABLES
    queue,                \* BuildQueue.queue: the waiting list
    activeBuildCount,     \* BuildQueue.activeBuildCount
    maxConcurrentBuilds,  \* BuildQueue.maxConcurrentBuilds
    now,                  \* the last reading of the clock (new Date())
    ret,                  \* the last BuildQueue call and what it returned
    uuid,                 \* how many ids randomUUID has handed out
    builds,               \* build server: builds (Map buildId -> Build)
    buildQueue,           \* build server: buildQueue (string[])
    isProcessing,         \* build server: isProcessing
    staging,              \* build server: submitBuild calls still writing files
    pipe,                 \* build server: the pipeline step each build awaits
    execLog,              \* build server: external commands run per build
    served,               \* build server: builds whose APK the download route sent
    keystoreFiles,        \* build server disk: keystores/<projectId>.keystore
    keystoreConfigs,      \* build server disk: keystores/<projectId>.json
    keystoreOf,           \* build server: keystoreConfig of each pipeline
    aged,                 \* build server: builds created more than 24 hours ago
    evicted,              \* build server: Build objects deleted from builds
    config,               \* main server: debianBuildService.config is set
    projects,             \* main server: storage.projects (id -> status)
    buildJobs,            \* main server: storage.buildJobs (Map id -> BuildJob)
    proc,                 \* main server: where each processBuild closure waits
    polls,                \* main server: status requests of pollBuildStatus in flight
    cancelledQueued,      \* history: <<server, id>> of builds cancelled while queued
    received,             \* build server: the body of the last POST /api/builds
    sockets,              \* main server: the WebSocket of each observer
    buildConnections,     \* main server: build id -> observers subscribed to it
    outbox                \* main server: the build_update messages the last
                          \*   handler that broadcasts has sent, in order

queueVars == <<queue, activeBuildCount, maxConcurrentBuilds>>
keystoreVars == <<keystoreFiles, keystoreConfigs, keystoreOf>>
sweepVars == <<aged, evicted>>
debVars == <<builds, buildQueue, isProcessing, staging, pipe, execLog, served,
             keystoreVars, sweepVars>>
mainVars == <<config, projects, buildJobs, proc, polls>>
wsVars == <<sockets, buildConnections>>
vars == <<queue, activeBuildCount, maxConcurrentBuilds, now, ret, received, uuid,
          builds, buildQueue, isProcessing, staging, pipe, execLog, served,
          keystoreFiles, keystoreConfigs, keystoreOf, aged, evicted,
          config, projects, buildJobs, proc, polls, cancelledQueued,
          sockets, buildConnections, outbox>>

Max(a, b) == IF a >= b THEN a ELSE b
Min(a, b) == IF a <= b THEN a ELSE b

\* A reading of the clock: time does not run backwards.
ClockReadings == now..Min(now + 1, MaxClock)

(***************************************************************************)
(* BuildQueue                                                              *)
(***************************************************************************)
QueueItem(buildId, projectId, priority, createdAt) ==
    [buildId |-> buildId, projectId |-> projectId,
     priority |-> priority, createdAt |-> createdAt]

\* The comparator handed to Array.prototype.sort in add.
CompareItems(a, b) ==
    IF a.priority # b.priority
    THEN b.priority - a.priority
    ELSE a.createdAt - b.createdAt

\* Array.prototype.sort is stable: an item goes before the first item it is
\* strictly smaller than, and after every item it ties with.
InsertStable(s, x) ==
    LET smaller == {i \in 1..Len(s) : CompareItems(x, s[i]) < 0}
        k == IF smaller = {} THEN Len(s) + 1
             ELSE CHOOSE i \in smaller : \A j \in smaller : i <= j
    IN  SubSeq(s, 1, k - 1) \o <<x>> \o SubSeq(s, k, Len(s))

RECURSIVE SortQueue(_)
SortQueue(q) ==
    IF q = <<>> THEN <<>>
    ELSE InsertStable(SortQueue(SubSeq(q, 1, Len(q) - 1)), q[Len(q)])

\* queue.findIndex(item => item.buildId === buildId), 1-based; 0 when absent.
FindIndex(q, buildId) ==
    LET hits == {i \in 1..Len(q) : q[i].buildId = buildId}
    IN  IF hits = {} THEN 0 ELSE CHOOSE i \in hits : \A j \in hits : i <= j

Splice(q, i) == SubSeq(q, 1, i - 1) \o SubSeq(q, i + 1, Len(q))

\* add without its sort.
AddToQueueUnsorted(q, item) == Append(q, item)

AddToQueue(q, item) == SortQueue(Append(q, item))

\* remove splicing at index 0 whatever findIndex found.
RemoveFromQueueHead(q, buildId) ==
    IF FindIndex(q, buildId) # 0 THEN Tail(q) ELSE q

RemoveFromQueue(q, buildId) ==
    IF FindIndex(q, buildId) # 0 THEN Splice(q, FindIndex(q, buildId)) ELSE q

\* getPosition: the 0-based index, -1 when the build is not waiting.
GetPosition(q, buildId) == FindIndex(q, buildId) - 1

CanStartBuild(active, max) == active < max

\* startBuild without its canStartBuild check.
StartBuildOkNoSlotCheck(q, active, max, buildId) == FindIndex(q, buildId) # 0

\* startBuild returns true exactly when the item is waiting and a slot is free.
StartBuildOk(q, active, max, buildId) ==
    FindIndex(q, buildId) # 0 /\ CanStartBuild(active, max)

\* completeBuild leaving the count as it is.
CompleteBuildCountKept(active) == active

CompleteBuildCount(active) == Max(0, active - 1)

SetMaxValue(max) == Max(1, max)

NoCall == [op |-> "none", buildId |-> 0, value |-> FALSE]
Returned(op, buildId, value) == [op |-> op, buildId |-> buildId, value |-> value]

(***************************************************************************)
(* Build server: records, log, pipelines (build-processor.ts)              *)
(***************************************************************************)
Null == -1            \* an optional number that is not set

Frameworks == {"react-native", "flutter", "capacitor"}   \* buildRequestSchema
RequestFrameworks == Frameworks \cup {"ionic"}           \* what a client may send

LogEntry(level, message) == [level |-> level, message |-> message]

\* new Date() written to a field that held `previous`: a later Date than any
\* the field held before (0: never set), so a second write shows.
Stamp(previous) == Min(previous + 1, MaxStamp)

\* addLog on the record itself (the caller looks the record up by id).
AddLog(build, level, message) ==
    [build EXCEPT !.logs = Append(@, LogEntry(level, message))]

\* The record submitBuild creates.
NewBuild(projectId, framework) ==
    [projectId |-> projectId, framework |-> framework, status |-> "queued",
     logs |-> <<LogEntry("info", "Build queued on Debian server")>>,
     apkPath |-> "", apkUrl |-> "", errorMessage |-> "", progress |-> Null,
     createdAt |-> Stamp(0), startedAt |-> 0, completedAt |-> 0]

\* One awaited operation of a pipeline, with what the pipeline logs and the
\* progress it sets right before starting it ("" and Null: nothing).
Step(kind, op, log, progress) ==
    [kind |-> kind, op |-> op, log |-> log, progress |-> progress]

\* getOrCreateKeystore: read the persisted config and check that its keystore
\* file is there; when either is missing, generateKeystore (keytool) and the
\* write of the new config. The pipeline logs "Signing APK..." before it.
KeystoreSteps ==
    << Step("keystore", "readFile config", "Signing APK...", 90),
       Step("keystore", "access keystore", "", Null),
       Step("keystore", "keytool", "", Null),
       Step("keystore", "writeFile config", "", Null) >>

\* signAPK returning the signed file without verifying it.
SigningStepsNoVerify ==
    << Step("sign", "zipalign", "", Null),
       Step("sign", "apksigner sign", "", Null),
       Step("fs", "rename", "", Null) >>

\* signAPK signing the file before it aligns it.
SigningStepsSignFirst ==
    << Step("sign", "apksigner sign", "", Null),
       Step("sign", "zipalign", "", Null),
       Step("sign", "apksigner verify", "", Null),
       Step("fs", "rename", "", Null) >>

\* signAPK, then the rename of the signed file to its final name.
SigningSteps ==
    << Step("sign", "zipalign", "", Null),
       Step("sign", "apksigner sign", "", Null),
       Step("sign", "apksigner verify", "", Null),
       Step("fs", "rename", "", Null) >>

ReactNativeSteps ==
    << Step("cmd", "npm install", "Installing dependencies...", 10),
       Step("fs", "mkdir assets", "Initializing Android project...", 20),
       Step("cmd", "react-native bundle", "Bundling JavaScript...", 30),
       Step("cmd", "chmod gradlew", "Building Android APK...", 50),
       Step("cmd", "gradlew assembleRelease", "Compiling with Gradle...", 60),
       Step("fs", "copyFile", "Locating generated APK...", 85) >>
    \o KeystoreSteps \o SigningSteps

\* buildFlutter with its first two checkpoints exchanged.
FlutterStepsRegress ==
    << Step("cmd", "flutter pub get", "Getting Flutter dependencies...", 30),
       Step("cmd", "flutter build apk", "Building Flutter Android app...", 10),
       Step("fs", "copyFile", "Locating generated APK...", 85) >>
    \o KeystoreSteps \o SigningSteps

FlutterSteps ==
    << Step("cmd", "flutter pub get", "Getting Flutter dependencies...", 10),
       Step("cmd", "flutter build apk", "Building Flutter Android app...", 30),
       Step("fs", "copyFile", "Locating generated APK...", 85) >>
    \o KeystoreSteps \o SigningSteps

CapacitorSteps ==
    << Step("cmd", "npm install", "Installing dependencies...", 10),
       Step("cmd", "npm run build", "Building web assets...", 25),
       Step("cmd", "cap sync android", "Syncing with Capacitor Android...", 40),
       Step("cmd", "chmod gradlew", "Building Android APK with Gradle...", 60),
       Step("cmd", "gradlew assembleRelease", "", Null),
       Step("fs", "copyFile", "Locating generated APK...", 85) >>
    \o KeystoreSteps \o SigningSteps

\* The switch of processBuild; an unsupported framework has no pipeline.
Pipeline(framework) ==
    CASE framework = "react-native" -> ReactNativeSteps
      [] framework = "flutter" -> FlutterSteps
      [] framework = "capacitor" -> CapacitorSteps
      [] OTHER -> <<>>

\* The code a pipeline runs, without awaiting, before it starts a step: its
\* log line, its progress checkpoint and, for runCommand, "Running: ...".
EnterStep(build, step) ==
    LET b1 == IF step.log # "" THEN AddLog(build, "info", step.log) ELSE build
        b2 == IF step.progress # Null THEN [b1 EXCEPT !.progress = step.progress]
              ELSE b1
    IN  IF step.kind = "cmd" THEN AddLog(b2, "info", "Running") ELSE b2

\* processBuild up to its first await.
BeginBuild(build) ==
    AddLog([build EXCEPT !.status = "building", !.startedAt = Stamp(@)],
           "info", "Build started")

\* The catch block of processBuild.
FailBuild(build, message) ==
    AddLog([build EXCEPT !.status = "failed", !.completedAt = Stamp(@),
                         !.errorMessage = message],
           "error", "Build failed")

\* processBuild recording success for a pipeline that returned without
\* recording its artifact.
SucceedBuildNoArtifact(build) ==
    AddLog([build EXCEPT !.status = "success", !.completedAt = Stamp(@),
                         !.progress = 100],
           "success", "Build completed successfully!")

\* The end of a pipeline (artifact fields, last log line), then the end of
\* the try block of processBuild.
SucceedBuild(build) ==
    LET b1 == AddLog([build EXCEPT !.apkPath = "apk", !.apkUrl = "download"],
                     "success", "APK generated and signed successfully")
    IN  AddLog([b1 EXCEPT !.status = "success", !.completedAt = Stamp(@),
                          !.progress = 100],
               "success", "Build completed successfully!")

\* The catch block of runCommand logs the captured output, when there is some.
CommandFailed(build, step, output) ==
    IF step.kind = "cmd" /\ output
    THEN AddLog(build, "error", "stderr")
    ELSE build

Running(op) == [op |-> op, result |-> "running"]
Finished(log, result) ==
    [log EXCEPT ![Len(log)] = [@ EXCEPT !.result = result]]

\* The while loop of processQueue from the point where it looks at the queue:
\* it shifts build ids until one starts a pipeline, which it then awaits, or
\* until the queue is empty. The result is the records, the rest of the
\* queue and the build whose pipeline now runs (0: none, the loop has ended).
RECURSIVE RunQueue(_, _)
RunQueue(bs, q) ==
    IF q = <<>> THEN [builds |-> bs, buildQueue |-> q, started |-> 0]
    ELSE LET d == Head(q) IN
         IF d \notin DOMAIN bs THEN RunQueue(bs, Tail(q))
         ELSE IF Pipeline(bs[d].framework) = <<>>
         THEN RunQueue([bs EXCEPT ![d] = FailBuild(BeginBuild(bs[d]),
                                                   "Unsupported framework")],
                       Tail(q))
         ELSE [builds |-> [bs EXCEPT ![d] =
                             EnterStep(BeginBuild(bs[d]),
                                       Pipeline(bs[d].framework)[1])],
               buildQueue |-> Tail(q), started |-> d]

\* What the loop leaves behind, written to the state.
LoopResult(r, finished, log) ==
    /\ builds' = r.builds
    /\ buildQueue' = r.buildQueue
    /\ isProcessing' = (r.started # 0)
    /\ pipe' = [d \in BuildIds |->
                  IF d = r.started THEN 1 ELSE IF d = finished THEN 0 ELSE pipe[d]]
    /\ execLog' =
         IF r.started = 0 THEN log
         ELSE [log EXCEPT ![r.started] =
                 Append(@, Running(Pipeline(r.builds[r.started].framework)[1].op))]

IsTerminal(status) == status \in {"success", "failed"}

\* The body of a POST /api/builds, as far as buildRequestSchema looks at it:
\* the framework tag and the files array, here the number of its entries.
FileCounts == 0..MaxFiles
BuildRequest(framework, files) == [framework |-> framework, files |-> files]
NoRequest == BuildRequest("", Null)

\* buildRequestSchema.parse: framework is one of the enum, files is an array
\* of {path, content} of any length.
Parses(request) == request.framework \in Frameworks /\ request.files >= 0

\* submitBuild putting the new build at the head of buildQueue.
DebSubmitAtHead(d, projectId, framework) ==
    /\ d \in BuildIds /\ d \notin DOMAIN builds
    /\ IF framework \notin Frameworks
       THEN UNCHANGED debVars
       ELSE /\ builds' = (d :> NewBuild(projectId, framework)) @@ builds
            /\ buildQueue' = <<d>> \o buildQueue
            /\ staging' = staging \cup {d}
            /\ UNCHANGED <<isProcessing, pipe, execLog, served, keystoreVars, sweepVars>>

\* POST /api/builds: buildRequestSchema.parse, then submitBuild up to its
\* first await (the record and the queue entry exist, no file is written yet).
DebSubmit(d, projectId, framework) ==
    /\ d \in BuildIds /\ d \notin DOMAIN builds
    /\ IF framework \notin Frameworks
       THEN UNCHANGED debVars
       ELSE /\ builds' = (d :> NewBuild(projectId, framework)) @@ builds
            /\ buildQueue' = Append(buildQueue, d)
            /\ staging' = staging \cup {d}
            /\ UNCHANGED <<isProcessing, pipe, execLog, served, keystoreVars, sweepVars>>

\* processQueue starting a loop though one is running.
ProcessQueueUnguarded ==
    IF buildQueue = <<>>
    THEN UNCHANGED <<builds, buildQueue, isProcessing, pipe, execLog>>
    ELSE LoopResult(RunQueue(builds, buildQueue), 0, execLog)

\* processQueue as submitBuild calls it.
ProcessQueue ==
    IF isProcessing \/ buildQueue = <<>>
    THEN UNCHANGED <<builds, buildQueue, isProcessing, pipe, execLog>>
    ELSE LoopResult(RunQueue(builds, buildQueue), 0, execLog)

\* submitBuild after its files are written: processQueue(), return buildId.
DebFilesWritten(d) ==
    /\ d \in staging
    /\ staging' = staging \ {d}
    /\ ProcessQueue
    /\ UNCHANGED <<served, keystoreVars, sweepVars>>

\* fs.mkdir or fs.writeFile rejects: submitBuild throws before processQueue().
DebWriteFailed(d) ==
    /\ d \in staging
    /\ staging' = staging \ {d}
    /\ UNCHANGED <<builds, buildQueue, isProcessing, pipe, execLog, served,
                   keystoreVars, sweepVars>>

\* The keystore directory and the keystoreConfig locals of the pipelines. A
\* keystore or a config is named by the build whose generateKeystore made it
\* (its passwords are random, its path and alias follow from the project);
\* 0 stands for a file that is not there and a local that is not set.
Disk == [files |-> keystoreFiles, configs |-> keystoreConfigs, got |-> keystoreOf]

SetDisk(disk) ==
    /\ keystoreFiles' = disk.files
    /\ keystoreConfigs' = disk.configs
    /\ keystoreOf' = disk.got

\* A step starts. keytool loads an existing keystore with the store password
\* it was given, which is a fresh random one: it then rejects the store.
Started(step, projectId, disk) ==
    [op |-> step.op,
     result |-> IF step.op = "keytool" /\ disk.files[projectId] # 0
                THEN "rejecting" ELSE "running"]

\* How the awaited operation of a step can end: "ok", "failed" (the error
\* reaches processBuild), "caught" (the error reaches the catch block of
\* getOrCreateKeystore) or "any" of ok and failed. Reading a file that is
\* there succeeds; commands and writes can fail.
Resolves(step, projectId, log, disk) ==
    CASE step.op = "readFile config" ->
            IF disk.configs[projectId] # 0 THEN "ok" ELSE "caught"
      [] step.op = "access keystore" ->
            IF disk.files[projectId] # 0 THEN "ok" ELSE "caught"
      [] step.op = "keytool" ->
            IF log[Len(log)].result = "rejecting" THEN "failed" ELSE "any"
      [] OTHER -> "any"

CanSucceed(step, projectId, log, disk) ==
    Resolves(step, projectId, log, disk) \in {"ok", "any"}
CanFail(step, projectId, log, disk) ==
    Resolves(step, projectId, log, disk) \in {"failed", "any"}
IsCaught(step, projectId, log, disk) ==
    Resolves(step, projectId, log, disk) = "caught"

\* getOrCreateKeystore returning a config of its own for a config it read.
DiskAfterOkFreshConfig(step, d, projectId, disk) ==
    CASE step.op = "readFile config" -> [disk EXCEPT !.got[d] = d]
      [] step.op = "keytool" -> [disk EXCEPT !.files[projectId] = d]
      [] step.op = "writeFile config" ->
            [disk EXCEPT !.configs[projectId] = d, !.got[d] = d]
      [] OTHER -> disk

\* What a step that succeeded leaves on the disk and in keystoreConfig.
DiskAfterOk(step, d, projectId, disk) ==
    CASE step.op = "readFile config" ->
            [disk EXCEPT !.got[d] = disk.configs[projectId]]
      [] step.op = "keytool" -> [disk EXCEPT !.files[projectId] = d]
      [] step.op = "writeFile config" ->
            [disk EXCEPT !.configs[projectId] = d, !.got[d] = d]
      [] OTHER -> disk

\* getOrCreateKeystore going on to generateKeystore after it found the
\* keystore of the config it read.
NextAfterOkRegenerates(step, k) == k + 1

\* The step after one that succeeded: getOrCreateKeystore returns the config
\* it read once the keystore is found, without keytool and writeFile.
NextAfterOk(step, k) == IF step.op = "access keystore" THEN k + 3 ELSE k + 1

\* The catch block of getOrCreateKeystore starts with generateKeystore.
NextAfterCaught(step, k) == IF step.op = "readFile config" THEN k + 2 ELSE k + 1

\* The Build object a running processBuild holds: the entry of builds, or
\* the object cleanupOldBuilds deleted from the Map. Nothing reads a deleted
\* object but its pipeline, so it is kept as it was when it was deleted.
BuildOf(d) == IF d \in DOMAIN builds THEN builds[d] ELSE evicted[d]

\* The Map after a pipeline wrote to its Build object.
Put(d, build) == IF d \in DOMAIN builds THEN [builds EXCEPT ![d] = build]
                 ELSE builds

\* The operation build d awaits completes; the pipeline goes on to its next
\* step or, after the last one, processBuild records success and the loop of
\* processQueue takes the next build.
DebStepOk(d) ==
    /\ pipe[d] > 0
    /\ LET steps == Pipeline(BuildOf(d).framework)
           step == steps[pipe[d]]
           projectId == BuildOf(d).projectId
           after == DiskAfterOk(step, d, projectId, Disk)
           n == NextAfterOk(step, pipe[d])
           done == [execLog EXCEPT ![d] = Finished(@, "ok")]
       IN  /\ CanSucceed(step, projectId, execLog[d], Disk)
           /\ SetDisk(after)
           /\ IF n <= Len(steps)
              THEN /\ builds' = Put(d, EnterStep(BuildOf(d), steps[n]))
                   /\ pipe' = [pipe EXCEPT ![d] = n]
                   /\ execLog' = [done EXCEPT ![d] =
                                    Append(@, Started(steps[n], projectId, after))]
                   /\ UNCHANGED <<buildQueue, isProcessing>>
              ELSE LoopResult(
                       RunQueue(Put(d, SucceedBuild(BuildOf(d))),
                                buildQueue),
                       d, done)
    /\ UNCHANGED <<staging, served, sweepVars>>

\* fs.readFile or fs.access of getOrCreateKeystore rejects for build d: its
\* catch block goes on with generateKeystore.
DebStepCaught(d) ==
    /\ pipe[d] > 0
    /\ LET steps == Pipeline(BuildOf(d).framework)
           step == steps[pipe[d]]
           projectId == BuildOf(d).projectId
           n == NextAfterCaught(step, pipe[d])
       IN  /\ IsCaught(step, projectId, execLog[d], Disk)
           /\ pipe' = [pipe EXCEPT ![d] = n]
           /\ execLog' = [execLog EXCEPT ![d] =
                            Append(Finished(@, "absent"),
                                   Started(steps[n], projectId, Disk))]
    /\ UNCHANGED <<builds, buildQueue, isProcessing, staging, served,
                   keystoreVars, sweepVars>>

\* A failed step that ends the pipeline but not the turn of its build: the
\* loop of processQueue does not go on.
DebStepFailKeepsWorker(d, output) ==
    /\ pipe[d] > 0
    /\ LET step == Pipeline(BuildOf(d).framework)[pipe[d]]
           failed == FailBuild(CommandFailed(BuildOf(d), step, output), step.op)
       IN  /\ CanFail(step, BuildOf(d).projectId, execLog[d], Disk)
           /\ builds' = Put(d, failed)
           /\ pipe' = [pipe EXCEPT ![d] = 0]
           /\ execLog' = [execLog EXCEPT ![d] = Finished(@, "failed")]
    /\ UNCHANGED <<buildQueue, isProcessing, staging, served, keystoreVars, sweepVars>>

\* The operation build d awaits fails (non-zero exit, timeout, fs error): the
\* error reaches the catch block of processBuild, and the loop goes on.
DebStepFail(d, output) ==
    /\ pipe[d] > 0
    /\ LET step == Pipeline(BuildOf(d).framework)[pipe[d]]
           failed == FailBuild(CommandFailed(BuildOf(d), step, output), step.op)
       IN  /\ CanFail(step, BuildOf(d).projectId, execLog[d], Disk)
           /\ LoopResult(RunQueue(Put(d, failed), buildQueue),
                         d, [execLog EXCEPT ![d] = Finished(@, "failed")])
    /\ UNCHANGED <<staging, served, keystoreVars, sweepVars>>

\* The pipeline of build d from the step it awaits to its end: every step
\* that can succeed does, except step failAt, which fails (0: none is meant
\* to). The result is the record, the commands run and the disk, as
\* DebStepOk, DebStepCaught and DebStepFail leave them one by one.
RECURSIVE RunPipeline(_, _, _, _, _, _)
RunPipeline(d, build, log, disk, k, failAt) ==
    LET steps == Pipeline(build.framework)
        step == steps[k]
        p == build.projectId
    IN
    IF IsCaught(step, p, log, disk)
    THEN RunPipeline(d, build,
                     Append(Finished(log, "absent"),
                            Started(steps[NextAfterCaught(step, k)], p, disk)),
                     disk, NextAfterCaught(step, k), failAt)
    ELSE IF ~CanSucceed(step, p, log, disk)
            \/ (k = failAt /\ CanFail(step, p, log, disk))
    THEN [build |-> FailBuild(CommandFailed(build, step, TRUE), step.op),
          log |-> Finished(log, "failed"), disk |-> disk]
    ELSE LET after == DiskAfterOk(step, d, p, disk)
             n == NextAfterOk(step, k)
         IN  IF n > Len(steps)
             THEN [build |-> SucceedBuild(build), log |-> Finished(log, "ok"),
                   disk |-> after]
             ELSE RunPipeline(d, EnterStep(build, steps[n]),
                              Append(Finished(log, "ok"),
                                     Started(steps[n], p, after)),
                              after, n, failAt)

\* Build d runs the rest of its pipeline while the main server does nothing.
DebRun(d, failAt) ==
    /\ pipe[d] > 0
    /\ failAt = 0 \/ failAt >= pipe[d]
    /\ failAt <= Len(Pipeline(BuildOf(d).framework))
    /\ LET r == RunPipeline(d, BuildOf(d), execLog[d], Disk, pipe[d], failAt)
       IN  /\ LoopResult(RunQueue(Put(d, r.build), buildQueue),
                         d, [execLog EXCEPT ![d] = r.log])
           /\ SetDisk(r.disk)
    /\ UNCHANGED <<staging, served, sweepVars>>

\* cancelBuild and its route POST /api/builds/:buildId/cancel.
CanCancelDeb(d) == d \in DOMAIN builds /\ ~IsTerminal(builds[d].status)

\* What the route answers: 404 when cancelBuild returned false.
DebCancelCode(d) == IF CanCancelDeb(d) THEN 200 ELSE 404

\* What POST /api/builds answers to a request that parses or does not.
DebSubmitCode(framework) == IF framework \in Frameworks THEN 201 ELSE 400

CancelledBuild(build) ==
    AddLog([build EXCEPT !.status = "failed", !.completedAt = Stamp(@),
                         !.errorMessage = "Build cancelled by user"],
           "error", "Build cancelled")

DebCancel(d) ==
    /\ IF CanCancelDeb(d)
       THEN /\ builds' = [builds EXCEPT ![d] = CancelledBuild(@)]
            /\ buildQueue' = SelectSeq(buildQueue, LAMBDA x : x # d)
            /\ cancelledQueued' =
                 IF builds[d].status = "queued"
                 THEN cancelledQueued \cup {<<"deb", d>>}
                 ELSE cancelledQueued
       ELSE UNCHANGED <<builds, buildQueue, cancelledQueued>>
    /\ UNCHANGED <<isProcessing, staging, pipe, execLog, served, keystoreVars, sweepVars>>

\* The APK files in the directory of a build whose pipeline has run the
\* commands of log: the unsigned copy (fs.copyFile), the aligned file
\* (zipalign), the signed file (apksigner sign) and the final file (fs.rename
\* of the signed one). A command that fails is taken to leave no file.
\* signAPK unlinks the unsigned and the aligned file after a successful
\* verify, and the aligned file alone in its catch block.
ApkFiles(log) ==
    LET Did(op, result) ==
            \E i \in 1..Len(log) : log[i] = [op |-> op, result |-> result]
        caught == \/ Did("zipalign", "failed")
                  \/ Did("apksigner sign", "failed")
                  \/ Did("apksigner verify", "failed")
        returned == Did("apksigner verify", "ok")
    IN  (IF Did("copyFile", "ok") /\ ~returned THEN {"unsigned"} ELSE {})
        \cup (IF Did("zipalign", "ok") /\ ~returned /\ ~caught
              THEN {"aligned"} ELSE {})
        \cup (IF Did("apksigner sign", "ok") /\ ~Did("rename", "ok")
              THEN {"signed"} ELSE {})
        \cup (IF Did("rename", "ok") THEN {"final"} ELSE {})

\* fs.existsSync(apkPath): the pipeline of d renamed the signed file to the
\* path it then recorded.
ApkOnDisk(d) ==
    \E i \in 1..Len(execLog[d]) : execLog[d][i] = [op |-> "rename", result |-> "ok"]

\* The download route without its status and path checks.
DownloadCodeUnchecked(d) == IF d \notin DOMAIN builds THEN 404 ELSE 200

\* GET /api/builds/:buildId/download: 200 is res.download of the file.
DownloadCode(d) ==
    IF d \notin DOMAIN builds THEN 404
    ELSE IF builds[d].status # "success" \/ builds[d].apkPath = "" THEN 400
    ELSE IF ~ApkOnDisk(d) THEN 404
    ELSE 200

DebDownload(d) ==
    /\ served' = IF DownloadCode(d) = 200 THEN served \cup {d} ELSE served
    /\ UNCHANGED <<builds, buildQueue, isProcessing, staging, pipe, execLog,
                   keystoreVars, sweepVars>>

\* cleanupOldBuilds deletes a build when age > maxAge and its status is
\* success or failed.
Evictable(d) ==
    d \in DOMAIN builds /\ d \in aged /\ IsTerminal(builds[d].status)

\* The builds one run of cleanupOldBuilds deletes.
Swept == {d \in DOMAIN builds : Evictable(d)}

\* cleanupOldBuilds, run by the hourly interval of the server: for every
\* entry of builds that is old and terminal it unlinks the APK, removes the
\* build directory and deletes the entry. Its awaits are file removals,
\* during which no status goes back from terminal and no build gets younger.
DebCleanupOldBuilds ==
    /\ Swept # {}
    /\ builds' = [d \in DOMAIN builds \ Swept |-> builds[d]]
    /\ evicted' = [d \in DOMAIN evicted \cup Swept |->
                     IF d \in Swept THEN builds[d] ELSE evicted[d]]
    /\ UNCHANGED <<buildQueue, isProcessing, staging, pipe, execLog, served,
                   keystoreVars, aged>>

\* Time passes: the oldest build that is not yet 24 hours old gets there
\* (age = now - build.createdAt, and builds are created one after another).
DebAges(d) ==
    /\ d \in BuildIds \ aged
    /\ d \in DOMAIN builds \cup DOMAIN evicted
    /\ \A e \in BuildIds : e < d => e \in aged
    /\ aged' = aged \cup {d}
    /\ UNCHANGED <<builds, buildQueue, isProcessing, staging, pipe, execLog,
                   served, keystoreVars, evicted>>

(***************************************************************************)
(* Main server: storage (MemStorage), the build routes of routes.ts and    *)
(* DebianBuildService. A handler runs without interruption up to its next  *)
(* network request or timer: awaiting MemStorage yields no I/O.            *)
(***************************************************************************)
\* The framework of each project (a text column, not validated here).
ProjectFramework(p) ==
    CASE p = 1 -> "flutter"
      [] p = 2 -> "ionic"
      [] p = 3 -> "react-native"
      [] OTHER -> "capacitor"

\* A processBuild closure: where it waits and the project id it captured.
Closure(at, project) == [at |-> at, project |-> project]

\* MemStorage.createBuildJob with the fields POST /api/projects/:id/build gives.
NewBuildJob(projectId) ==
    [projectId |-> projectId, status |-> "queued",
     logs |-> <<LogEntry("info", "Build queued")>>,
     apkUrl |-> "", errorMessage |-> "",
     createdAt |-> Stamp(0), completedAt |-> 0]

\* MemStorage.updateBuildJob: {...buildJob, ...updates}; undefined (nothing
\* changes) when the id is unknown.
UpdateBuildJob(jobs, id, updates) ==
    IF id \in DOMAIN jobs THEN [jobs EXCEPT ![id] = updates @@ @] ELSE jobs

\* MemStorage.updateProject, for the status field.
UpdateProject(projs, id, status) ==
    IF id \in DOMAIN projs THEN [projs EXCEPT ![id] = status] ELSE projs

\* new Date() for the completedAt of job id.
CompletedNow(jobs, id) ==
    IF id \in DOMAIN jobs THEN Stamp(jobs[id].completedAt) ELSE Stamp(0)

PositionLog(position) ==
    <<LogEntry("info", "Build queued (position: " \o ToString(position + 1) \o ")")>>

SubmittingLog == <<LogEntry("info", "Submitting build to Debian server...")>>

SubmittedLog ==
    << LogEntry("info", "Build submitted successfully"),
       LogEntry("info", "Debian Build ID"),
       LogEntry("info", "Waiting for build to start...") >>

FailedLog(message) ==
    <<LogEntry("error", "Build failed"), LogEntry("error", message)>>

\* The catch block of processBuild (main server).
CatchUpdate(jobs, id, message) ==
    UpdateBuildJob(jobs, id,
        [status |-> "failed", completedAt |-> CompletedNow(jobs, id),
         errorMessage |-> message, logs |-> FailedLog(message)])

\* A WebSocket as the server holds it: its readyState and the buildId of the
\* URL it connected with (0: none). An observer that has not connected yet
\* is written as a closed socket; connecting again makes a new socket.
Socket(readyState, buildId) == [readyState |-> readyState, buildId |-> buildId]
NoSocket == Socket("closed", 0)

\* buildConnections.get(buildId), the empty set for undefined.
Connections(buildId) ==
    IF buildId \in DOMAIN buildConnections THEN buildConnections[buildId] ELSE {}

\* A broadcaster that is silent about records in a terminal state.
BroadcastBuildUpdateWhileActive(buildId, build) ==
    LET to == {o \in Connections(buildId) : sockets[o].readyState = "open"}
    IN  IF to = {} \/ IsTerminal(build.status) THEN <<>>
        ELSE <<[type |-> "build_update", buildId |-> buildId, build |-> build,
                to |-> to]>>

\* broadcastBuildUpdate: one build_update message, sent to every socket of
\* the build's set that is OPEN; nothing when there is no such socket.
BroadcastBuildUpdate(buildId, build) ==
    LET to == {o \in Connections(buildId) : sockets[o].readyState = "open"}
    IN  IF to = {} THEN <<>>
        ELSE <<[type |-> "build_update", buildId |-> buildId, build |-> build,
                to |-> to]>>

\* if (updatedBuild) broadcastBuildUpdate(...): updateBuildJob and getBuildJob
\* give undefined for a record that is not there.
BroadcastUpdated(jobs, buildId) ==
    IF buildId \in DOMAIN jobs THEN BroadcastBuildUpdate(buildId, jobs[buildId])
    ELSE <<>>

\* What a handler has sent when it ends: the messages, or what the last
\* handler left when it sent none.
Sent(messages) == outbox' = IF messages = <<>> THEN outbox ELSE messages

\* processBuild from its first line to its first timer or network request,
\* for build b of project p, given the waiting list q and the records jobs:
\* no free slot: log the position and retry in 5 s; the build is not waiting
\* any more: give up; else take the slot and send the build to the server.
ProcessBuild(b, p, q, jobs) ==
    IF ~CanStartBuild(activeBuildCount, maxConcurrentBuilds)
    THEN /\ buildJobs' = UpdateBuildJob(jobs, b,
                             [logs |-> PositionLog(GetPosition(q, b))])
         /\ Sent(BroadcastUpdated(buildJobs', b))
         /\ proc' = [proc EXCEPT ![b] = Closure("timer", p)]
         /\ queue' = q
         /\ UNCHANGED <<activeBuildCount, projects>>
    ELSE IF ~StartBuildOk(q, activeBuildCount, maxConcurrentBuilds, b)
    THEN /\ proc' = [proc EXCEPT ![b] = Closure("done", p)]
         /\ queue' = q
         /\ buildJobs' = jobs
         /\ UNCHANGED outbox
         /\ UNCHANGED <<activeBuildCount, projects>>
    ELSE /\ queue' = RemoveFromQueue(q, b)
         /\ activeBuildCount' = activeBuildCount + 1
         /\ projects' = UpdateProject(projects, p, "building")
         /\ buildJobs' = UpdateBuildJob(jobs, b,
                             [status |-> "queued", logs |-> SubmittingLog])
         /\ Sent(BroadcastUpdated(buildJobs', b))
         /\ proc' = [proc EXCEPT ![b] = Closure("submit", p)]

\* POST /api/server/config.
SetConfig ==
    /\ config' = TRUE
    /\ UNCHANGED <<queueVars, now, ret, received, wsVars, outbox, cancelledQueued, uuid, debVars, projects, buildJobs, proc, polls>>

\* What POST /api/projects/:id/build answers.
PostBuildCode(p) ==
    IF p \notin DOMAIN projects THEN 404 ELSE IF ~config THEN 400 ELSE 201

\* POST /api/projects/:id/build: create the job, enqueue it, call processBuild.
PostBuild(p, priority) ==
    /\ uuid < MaxBuilds
    /\ IF PostBuildCode(p) # 201
       THEN UNCHANGED <<queueVars, now, ret, received, wsVars, outbox, cancelledQueued, uuid, projects, buildJobs, proc>>
       ELSE LET b == uuid + 1 IN
            /\ uuid' = b
            /\ \E t \in ClockReadings :
                 /\ now' = t
                 /\ ProcessBuild(b, p,
                        AddToQueue(queue, QueueItem(b, p, priority, t)),
                        (b :> NewBuildJob(p)) @@ buildJobs)
            /\ UNCHANGED maxConcurrentBuilds
    /\ UNCHANGED <<ret, received, wsVars, cancelledQueued, debVars, config, polls>>

\* setTimeout(processBuild, 5000) fires.
RetryTick(b) ==
    /\ proc[b].at = "timer"
    /\ ProcessBuild(b, proc[b].project, queue, buildJobs)
    /\ UNCHANGED <<maxConcurrentBuilds, now, ret, received, wsVars, cancelledQueued, uuid, debVars, config, polls>>

\* The build server receives the POST /api/builds that processBuild sent for
\* build b (the build server's id for it is written b as well).
DebReceiveSubmit(b) ==
    /\ proc[b].at = "submit"
    /\ DebSubmit(b, proc[b].project, ProjectFramework(proc[b].project))
    /\ proc' = IF DebSubmitCode(ProjectFramework(proc[b].project)) = 201
               THEN proc
               ELSE [proc EXCEPT ![b].at = "submitError"]
    /\ UNCHANGED <<queueVars, now, ret, received, wsVars, outbox, cancelledQueued, uuid, config, projects, buildJobs, polls>>

\* The build server answers 201 with the build id, or 500.
\* (Nobody waits for the answer when the request has failed meanwhile.)
DebReplySubmit(b, written) ==
    /\ IF written THEN DebFilesWritten(b) ELSE DebWriteFailed(b)
    /\ proc' = IF proc[b].at # "submit" THEN proc
               ELSE [proc EXCEPT ![b].at = IF written THEN "submitted"
                                           ELSE "submitError"]
    /\ UNCHANGED <<queueVars, now, ret, received, wsVars, outbox, cancelledQueued, uuid, config, projects, buildJobs, polls>>

\* submitBuild returned the build id: status building, then pollBuildStatus
\* sets its interval.
SubmitReturn(b) ==
    /\ proc[b].at = "submitted"
    /\ buildJobs' = UpdateBuildJob(buildJobs, b,
                        [status |-> "building", logs |-> SubmittedLog])
    /\ Sent(BroadcastUpdated(buildJobs', b))
    /\ proc' = [proc EXCEPT ![b].at = "poll"]
    /\ UNCHANGED <<queueVars, now, ret, received, wsVars, cancelledQueued, uuid, debVars, config, projects, polls>>

\* submitBuild threw (no connection, a timeout, an error status): the catch
\* block of processBuild.
SubmitFailed(b) ==
    /\ proc[b].at \in {"submit", "submitError"}
    /\ buildJobs' = CatchUpdate(buildJobs, b, "Failed to communicate with Debian server")
    /\ Sent(BroadcastUpdated(buildJobs', b))
    /\ projects' = UpdateProject(projects, proc[b].project, "active")
    /\ activeBuildCount' = CompleteBuildCount(activeBuildCount)
    /\ proc' = [proc EXCEPT ![b].at = "done"]
    /\ UNCHANGED <<queue, maxConcurrentBuilds, now, ret, received, wsVars, cancelledQueued, uuid, debVars, config, polls>>

\* getBuildStatus on the build server: what GET /api/builds/:buildId answers.
StatusResponse(b) ==
    IF b \in DOMAIN builds
    THEN [b |-> b, ok |-> TRUE, status |-> builds[b].status,
          logs |-> builds[b].logs, apkUrl |-> builds[b].apkUrl,
          errorMessage |-> builds[b].errorMessage]
    ELSE [b |-> b, ok |-> FALSE, status |-> "", logs |-> <<>>, apkUrl |-> "",
          errorMessage |-> ""]

FailedRequest(b) ==
    [b |-> b, ok |-> FALSE, status |-> "", logs |-> <<>>, apkUrl |-> "",
     errorMessage |-> ""]

\* The interval of pollBuildStatus fires: one more request is in flight,
\* carrying the answer of the build server.
PollTick(b) ==
    /\ proc[b].at = "poll"
    /\ Cardinality(polls) < MaxInFlight
    /\ polls' = polls \cup {StatusResponse(b)}
    /\ UNCHANGED <<queueVars, now, ret, received, wsVars, outbox, cancelledQueued, uuid, debVars, config, projects, buildJobs, proc>>

\* updateData of the poll callback, finalUpdateData of processBuild: fields
\* that are empty in the answer are left out of the update.
Present(field, value) == IF value = "" THEN <<>> ELSE field :> value

UpdateData(r) ==
    [status |-> r.status]
    @@ (IF Len(r.logs) > 0 THEN [logs |-> r.logs] ELSE <<>>)
    @@ Present("apkUrl", r.apkUrl)
    @@ Present("errorMessage", r.errorMessage)

FinalUpdateData(r, completedAt) ==
    [status |-> r.status, completedAt |-> completedAt]
    @@ (IF Len(r.logs) > 0 THEN [logs |-> r.logs] ELSE <<>>)
    @@ Present("apkUrl", r.apkUrl)
    @@ Present("errorMessage", r.errorMessage)

\* An answer r of a status request arrives. A failed request clears the
\* interval and rejects; an answer goes to onUpdate and, when its status is
\* terminal, clears the interval and resolves. Rejecting or resolving a
\* promise that is already settled does nothing; when it settles now,
\* processBuild goes on in the same turn (catch block, or final update).
PollDeliver(r) ==
    LET b == r.b
        settles == proc[b].at = "poll"
        called == IF r.ok THEN UpdateBuildJob(buildJobs, b, UpdateData(r))
                  ELSE buildJobs
        update == IF r.ok THEN BroadcastUpdated(called, b) ELSE <<>>
    IN  /\ IF settles /\ (~r.ok \/ IsTerminal(r.status))
           THEN /\ buildJobs' =
                     IF r.ok
                     THEN UpdateBuildJob(called, b,
                              FinalUpdateData(r, CompletedNow(called, b)))
                     ELSE CatchUpdate(called, b,
                              "Failed to communicate with Debian server")
                /\ projects' = UpdateProject(projects, proc[b].project, "active")
                /\ activeBuildCount' = CompleteBuildCount(activeBuildCount)
                /\ proc' = [proc EXCEPT ![b].at = "done"]
                /\ Sent(update \o BroadcastUpdated(buildJobs', b))
           ELSE /\ buildJobs' = called
                /\ Sent(update)
                /\ UNCHANGED <<projects, activeBuildCount, proc>>
        /\ UNCHANGED <<queue, maxConcurrentBuilds, now, ret, received, wsVars, cancelledQueued, uuid, debVars, config>>

\* The answer r of a request in flight arrives.
PollAnswer(r) ==
    /\ r \in polls
    /\ polls' = polls \ {r}
    /\ PollDeliver(r)

\* The interval fires and its request fails at once (no connection).
PollFail(b) ==
    /\ proc[b].at = "poll"
    /\ PollDeliver(FailedRequest(b))
    /\ UNCHANGED polls

\* The cancel route without its status check.
CancelCodeAnyStatus(id) == IF id \notin DOMAIN buildJobs THEN 404 ELSE 200

\* POST /api/builds/:id/cancel on the main server.
CancelCode(id) ==
    IF id \notin DOMAIN buildJobs THEN 404
    ELSE IF buildJobs[id].status \notin {"queued", "building"} THEN 400
    ELSE 200

CancelledLog(logs) ==
    Append(logs, LogEntry("warn", "Build cancelled by user"))

CancelRoute(id) ==
    /\ IF CancelCode(id) = 200
       THEN /\ queue' = RemoveFromQueue(queue, id)
            /\ buildJobs' = UpdateBuildJob(buildJobs, id,
                   [status |-> "failed",
                    completedAt |-> CompletedNow(buildJobs, id),
                    errorMessage |-> "Build cancelled by user",
                    logs |-> CancelledLog(buildJobs[id].logs)])
            /\ projects' = UpdateProject(projects, buildJobs[id].projectId, "active")
            /\ Sent(BroadcastUpdated(buildJobs', id))
       ELSE UNCHANGED <<queue, buildJobs, projects, outbox>>
    /\ cancelledQueued' =
         IF CancelCode(id) = 200 /\ buildJobs[id].status = "queued"
         THEN cancelledQueued \cup {<<"main", id>>}
         ELSE cancelledQueued
    /\ UNCHANGED <<activeBuildCount, maxConcurrentBuilds, now, ret, received, wsVars, uuid, debVars,
                   config, proc, polls>>

\* MemStorage.deleteProject: the project and the build jobs of the project
\* go (its files are not part of the model); false for an unknown project.
DeletedJobs(jobs, projectId) ==
    [b \in {k \in DOMAIN jobs : jobs[k].projectId # projectId} |-> jobs[b]]

\* DELETE /api/projects/:id.
DeleteProject(p) ==
    /\ IF p \in DOMAIN projects
       THEN /\ projects' = [k \in DOMAIN projects \ {p} |-> projects[k]]
            /\ buildJobs' = DeletedJobs(buildJobs, p)
       ELSE UNCHANGED <<projects, buildJobs>>
    /\ UNCHANGED <<queueVars, now, ret, received, wsVars, outbox, cancelledQueued,
                   uuid, debVars, config, proc, polls>>

\* wss.on('connection'): a client connects, with ?buildId= or without (0).
WsConnect(o, buildId) ==
    /\ sockets[o].readyState = "closed"
    /\ sockets' = [sockets EXCEPT ![o] = Socket("open", buildId)]
    /\ buildConnections' =
         IF buildId = 0 THEN buildConnections
         ELSE (buildId :> (Connections(buildId) \cup {o})) @@ buildConnections
    /\ UNCHANGED <<queueVars, now, ret, received, outbox, cancelledQueued, uuid,
                   debVars, mainVars>>

\* The closing handshake of a socket begins: its readyState is CLOSING.
WsClosing(o) ==
    /\ sockets[o].readyState = "open"
    /\ sockets' = [sockets EXCEPT ![o].readyState = "closing"]
    /\ UNCHANGED <<queueVars, now, ret, received, buildConnections, outbox,
                   cancelledQueued, uuid, debVars, mainVars>>

\* A 'close' handler that keeps the entry of a build whose set is empty.
WsCloseKeepsEntry(o) ==
    /\ sockets[o].readyState # "closed"
    /\ sockets' = [sockets EXCEPT ![o].readyState = "closed"]
    /\ LET buildId == sockets[o].buildId
       IN  buildConnections' =
             IF buildId = 0 \/ buildId \notin DOMAIN buildConnections
             THEN buildConnections
             ELSE [buildConnections EXCEPT ![buildId] = @ \ {o}]
    /\ UNCHANGED <<queueVars, now, ret, received, outbox, cancelledQueued, uuid,
                   debVars, mainVars>>

\* The socket is closed and its 'close' handler runs (there is one when the
\* socket connected with a buildId).
WsClose(o) ==
    /\ sockets[o].readyState # "closed"
    /\ sockets' = [sockets EXCEPT ![o].readyState = "closed"]
    /\ LET buildId == sockets[o].buildId
           left == Connections(buildId) \ {o}
       IN  buildConnections' =
             IF buildId = 0 \/ buildId \notin DOMAIN buildConnections
             THEN buildConnections
             ELSE IF left = {}
             THEN [k \in DOMAIN buildConnections \ {buildId} |->
                     buildConnections[k]]
             ELSE [buildConnections EXCEPT ![buildId] = left]
    /\ UNCHANGED <<queueVars, now, ret, received, outbox, cancelledQueued, uuid,
                   debVars, mainVars>>

\* The build server runs the rest of the pipeline of build d.
RunBuild(d, failAt) ==
    /\ DebRun(d, failAt)
    /\ UNCHANGED <<queueVars, now, ret, received, wsVars, outbox, cancelledQueued, uuid, mainVars>>

(***************************************************************************)
(* The BuildQueue class on its own: any caller, any sequence of calls.     *)
(***************************************************************************)
notQueueVars == <<uuid, debVars, mainVars, cancelledQueued, received, wsVars,
                  outbox>>

add(buildId, projectId, priority) ==
    /\ FindIndex(queue, buildId) = 0
    /\ \E t \in ClockReadings :
          /\ now' = t
          /\ queue' = AddToQueue(queue, QueueItem(buildId, projectId, priority, t))
    /\ ret' = Returned("add", buildId, TRUE)
    /\ UNCHANGED <<activeBuildCount, maxConcurrentBuilds>>
    /\ UNCHANGED notQueueVars

remove(buildId) ==
    /\ queue' = RemoveFromQueue(queue, buildId)
    /\ ret' = Returned("remove", buildId, FindIndex(queue, buildId) # 0)
    /\ UNCHANGED <<activeBuildCount, maxConcurrentBuilds, now>>
    /\ UNCHANGED notQueueVars

startBuild(buildId) ==
    /\ IF StartBuildOk(queue, activeBuildCount, maxConcurrentBuilds, buildId)
       THEN /\ queue' = RemoveFromQueue(queue, buildId)
            /\ activeBuildCount' = activeBuildCount + 1
            /\ ret' = Returned("startBuild", buildId, TRUE)
       ELSE /\ ret' = Returned("startBuild", buildId, FALSE)
            /\ UNCHANGED <<queue, activeBuildCount>>
    /\ UNCHANGED <<maxConcurrentBuilds, now>>
    /\ UNCHANGED notQueueVars

completeBuild(buildId) ==
    /\ activeBuildCount' = CompleteBuildCount(activeBuildCount)
    /\ ret' = Returned("completeBuild", buildId, TRUE)
    /\ UNCHANGED <<queue, maxConcurrentBuilds, now>>
    /\ UNCHANGED notQueueVars

setMaxConcurrentBuilds(max) ==
    /\ maxConcurrentBuilds' = SetMaxValue(max)
    /\ ret' = Returned("setMaxConcurrentBuilds", max, TRUE)
    /\ UNCHANGED <<queue, activeBuildCount, now>>
    /\ UNCHANGED notQueueVars

\* new BuildQueue(max): the constructor leaves the limit to its caller.
InitQueue(limits) ==
    /\ queue = <<>>
    /\ activeBuildCount = 0
    /\ maxConcurrentBuilds \in limits
    /\ now = 0
    /\ ret = NoCall
    /\ cancelledQueued = {}

InitDeb ==
    /\ builds = <<>>
    /\ buildQueue = <<>>
    /\ isProcessing = FALSE
    /\ staging = {}
    /\ pipe = [d \in BuildIds |-> 0]
    /\ execLog = [d \in BuildIds |-> <<>>]
    /\ served = {}
    /\ keystoreFiles = [p \in ProjectIds |-> 0]
    /\ keystoreConfigs = [p \in ProjectIds |-> 0]
    /\ keystoreOf = [d \in BuildIds |-> 0]
    /\ aged = {}
    /\ evicted = <<>>
    /\ received = NoRequest

\* The projects exist already (POST /api/projects is not part of the model).
InitMain ==
    /\ config = FALSE
    /\ projects = [p \in ProjectIds |-> "active"]
    /\ buildJobs = <<>>
    /\ proc = [b \in BuildIds |-> Closure("none", 0)]
    /\ polls = {}
    /\ sockets = [o \in Observers |-> NoSocket]
    /\ buildConnections = <<>>
    /\ outbox = <<>>

Init ==
    /\ InitQueue(1..MaxSlots)
    /\ InitDeb
    /\ InitMain
    /\ uuid = 0

\* The build server has no BuildQueue; the main server's stays as exported.
InitDebOnly ==
    /\ InitQueue({DefaultMaxConcurrentBuilds})
    /\ InitDeb
    /\ InitMain
    /\ uuid = 0

NextQueue ==
    \/ \E b \in BuildIds, p \in ProjectIds, pr \in Priorities : add(b, p, pr)
    \/ \E b \in BuildIds : remove(b)
    \/ \E b \in BuildIds : startBuild(b)
    \/ \E b \in BuildIds : completeBuild(b)
    \/ \E m \in 0..MaxSlots : setMaxConcurrentBuilds(m)

SpecQueue == Init /\ [][NextQueue]_vars

(***************************************************************************)
(* The build server on its own, driven by its HTTP clients.                *)
(***************************************************************************)
notDebVars == <<queue, activeBuildCount, maxConcurrentBuilds, now, ret, received,
                wsVars, outbox, mainVars>>
notDebActionVars == <<uuid, notDebVars, cancelledQueued>>

PostBuilds(p, f) ==
    /\ uuid < MaxDebBuilds
    /\ DebSubmit(uuid + 1, p, f)
    /\ uuid' = IF DebSubmitCode(f) = 201 THEN uuid + 1 ELSE uuid
    /\ UNCHANGED <<notDebVars, cancelledQueued>>

\* POST /api/builds with a body whose files array is given too.
PostBuildsBody(p, request) ==
    /\ uuid < MaxDebBuilds
    /\ received' = request
    /\ DebSubmit(uuid + 1, p, request.framework)
    /\ uuid' = IF DebSubmitCode(request.framework) = 201 THEN uuid + 1 ELSE uuid
    /\ UNCHANGED <<queue, activeBuildCount, maxConcurrentBuilds, now, ret,
                   mainVars, cancelledQueued, wsVars, outbox>>

FilesWritten(d) == DebFilesWritten(d) /\ UNCHANGED notDebActionVars

WriteFailed(d) == DebWriteFailed(d) /\ UNCHANGED notDebActionVars

StepOk(d) == DebStepOk(d) /\ UNCHANGED notDebActionVars

StepCaught(d) == DebStepCaught(d) /\ UNCHANGED notDebActionVars

StepFail(d, output) == DebStepFail(d, output) /\ UNCHANGED notDebActionVars

PostCancel(d) == DebCancel(d) /\ UNCHANGED <<uuid, notDebVars>>

GetDownload(d) == DebDownload(d) /\ UNCHANGED notDebActionVars

NextDeb ==
    \/ \E p \in ProjectIds, f \in RequestFrameworks : PostBuilds(p, f)
    \/ \E d \in BuildIds : FilesWritten(d)
    \/ \E d \in BuildIds : WriteFailed(d)
    \/ \E d \in BuildIds : StepOk(d)
    \/ \E d \in BuildIds : StepCaught(d)
    \/ \E d \in BuildIds, output \in BOOLEAN : StepFail(d, output)
    \/ \E d \in BuildIds : PostCancel(d)
    \/ \E d \in BuildIds : GetDownload(d)

SpecDeb == InitDebOnly /\ [][NextDeb]_vars

\* A write of submitBuild ends (done or failed), and so does the operation a
\* pipeline awaits (exit, error or timeout); clients owe nothing.
FairSpecDeb ==
    /\ SpecDeb
    /\ WF_vars(\E d \in BuildIds : FilesWritten(d) \/ WriteFailed(d))
    /\ WF_vars(\E d \in BuildIds : StepOk(d) \/ StepCaught(d) \/ StepFail(d, TRUE))

(***************************************************************************)
(* The build server with its retention sweep, over days: pipelines run     *)
(* from the step they await to their end in one step.                      *)
(***************************************************************************)
CleanupOldBuilds == DebCleanupOldBuilds /\ UNCHANGED notDebActionVars

Ages(d) == DebAges(d) /\ UNCHANGED notDebActionVars

NextSweep ==
    \/ \E p \in ProjectIds, f \in RequestFrameworks : PostBuilds(p, f)
    \/ \E d \in BuildIds : FilesWritten(d)
    \/ \E d \in BuildIds, failAt \in 0..MaxFailStep : RunBuild(d, failAt)
    \/ \E d \in BuildIds : PostCancel(d)
    \/ \E d \in BuildIds : Ages(d)
    \/ CleanupOldBuilds

SpecSweep == InitDebOnly /\ [][NextSweep]_vars

(***************************************************************************)
(* The build server receiving any request body; pipelines fail at once.    *)
(***************************************************************************)
NextSubmit ==
    \/ \E p \in ProjectIds, f \in RequestFrameworks, n \in FileCounts :
          PostBuildsBody(p, BuildRequest(f, n))
    \/ \E d \in BuildIds : FilesWritten(d)
    \/ \E d \in BuildIds : WriteFailed(d)
    \/ \E d \in BuildIds : StepFail(d, TRUE)

SpecSubmit == InitDebOnly /\ [][NextSubmit]_vars

(***************************************************************************)
(* The main server and the build server it submits to.                     *)
(***************************************************************************)
SubmitBuild(p, priority) == uuid < MaxMainBuilds /\ PostBuild(p, priority)

Next ==
    \/ SetConfig
    \/ \E p \in ProjectIds, priority \in Priorities : SubmitBuild(p, priority)
    \/ \E b \in BuildIds : RetryTick(b)
    \/ \E b \in BuildIds : DebReceiveSubmit(b)
    \/ \E b \in BuildIds, written \in BOOLEAN : DebReplySubmit(b, written)
    \/ \E b \in BuildIds : SubmitReturn(b)
    \/ \E b \in BuildIds : SubmitFailed(b)
    \/ \E b \in BuildIds : PollTick(b)
    \/ \E b \in BuildIds : PollFail(b)
    \/ \E r \in polls : PollAnswer(r)
    \/ \E b \in BuildIds : CancelRoute(b)
    \/ \E d \in BuildIds, failAt \in 0..MaxFailStep : RunBuild(d, failAt)

Spec == Init /\ [][Next]_vars

(***************************************************************************)
(* Both servers with one build slot, and WebSocket clients of the main     *)
(* server that subscribe to the build submitted last, which is the one     *)
(* that may have to wait for the slot.                                     *)
(***************************************************************************)
WatchedBuilds == {MaxMainBuilds}

NextWs ==
    \/ Next
    \/ \E o \in 1..MaxSubscribers, b \in WatchedBuilds : WsConnect(o, b)
    \/ \E o \in 1..MaxSubscribers : WsClosing(o)
    \/ \E o \in 1..MaxSubscribers : WsClose(o)

\* One slot: the watched build waits while the first one runs.
InitWs == Init /\ maxConcurrentBuilds = 1

SpecWs == InitWs /\ [][NextWs]_vars

(***************************************************************************)
(* Both servers, and a client of the build server's own cancel route.      *)
(***************************************************************************)
NextCancel ==
    \/ Next
    \/ \E d \in BuildIds : PostCancel(d)

\* One slot: a second build waits while the first one runs.
InitCancel == Init /\ maxConcurrentBuilds = 1

SpecCancel == InitCancel /\ [][NextCancel]_vars

(***************************************************************************)
(* The main server while the build server cannot be reached: every         *)
(* submitBuild request fails.                                              *)
(***************************************************************************)
NextOffline ==
    \/ SetConfig
    \/ \E p \in ProjectIds, priority \in Priorities : PostBuild(p, priority)
    \/ \E b \in BuildIds : RetryTick(b)
    \/ \E b \in BuildIds : SubmitFailed(b)
    \/ \E b \in BuildIds : CancelRoute(b)

SpecOffline == Init /\ [][NextOffline]_vars

(***************************************************************************)
(* The main server, the build server out of reach, and clients that delete *)
(* projects.                                                               *)
(***************************************************************************)
NextDelete ==
    \/ NextOffline
    \/ \E p \in ProjectIds : DeleteProject(p)

SpecDelete == Init /\ [][NextDelete]_vars

(***************************************************************************)
(* The WebSocket server on its own: clients connect and disconnect.        *)
(***************************************************************************)
NextConnections ==
    \/ \E o \in Observers, b \in BuildIds \cup {0} : WsConnect(o, b)
    \/ \E o \in Observers : WsClosing(o)
    \/ \E o \in Observers : WsClose(o)

SpecConnections == Init /\ [][NextConnections]_vars

(***************************************************************************)
(* Properties                                                              *)
(***************************************************************************)
BuildingJobs == {b \in DOMAIN buildJobs : buildJobs[b].status = "building"}

\* C1: at every moment the number of build jobs whose recorded status is
\* "building" is at most maxConcurrentBuilds.
C1_BuildingWithinLimit == Cardinality(BuildingJobs) <= maxConcurrentBuilds

\* C2: after any sequence of BuildQueue calls activeBuildCount is at most
\* maxConcurrentBuilds and not negative.
C2_ActiveWithinLimit ==
    activeBuildCount >= 0 /\ activeBuildCount <= maxConcurrentBuilds

\* x goes before y in priority-then-FIFO order.
Before(x, y) ==
    x.priority > y.priority
    \/ (x.priority = y.priority /\ x.createdAt < y.createdAt)

\* Build b leaves the waiting list for a slot in this step.
Acquires(b) ==
    /\ FindIndex(queue, b) # 0
    /\ FindIndex(queue', b) = 0
    /\ activeBuildCount' = activeBuildCount + 1

\* C3: whenever a waiting build acquires a slot, no build still in the
\* waiting list has a higher priority, or an equal priority and an earlier
\* enqueue time.
C3_StartsInPriorityOrder ==
    [][\A b \in BuildIds :
         Acquires(b) =>
             \A i \in 1..Len(queue') :
                 ~Before(queue'[i], queue[FindIndex(queue, b)])]_vars

\* The fields of a record that a terminal status freezes.
FinalFields(r) == <<r.status, r.errorMessage, r.apkUrl, r.completedAt>>

\* C4: once a record's status is success or failed, no step changes its
\* status, errorMessage, apkUrl or completedAt, on the build server and on
\* the main server.
C4_TerminalIsFinal ==
    [][/\ \A d \in DOMAIN builds :
            (IsTerminal(builds[d].status) /\ d \in DOMAIN builds')
                => FinalFields(builds'[d]) = FinalFields(builds[d])
       /\ \A b \in DOMAIN buildJobs :
            (IsTerminal(buildJobs[b].status) /\ b \in DOMAIN buildJobs')
                => FinalFields(buildJobs'[b]) = FinalFields(buildJobs[b])]_vars

\* C5: a build cancelled while its status was queued never afterwards has
\* status building, on the main server and on the build server.
C5_CancelledQueuedNeverBuilding ==
    /\ \A b \in DOMAIN buildJobs :
         <<"main", b>> \in cancelledQueued => buildJobs[b].status # "building"
    /\ \A d \in DOMAIN builds :
         <<"deb", d>> \in cancelledQueued => builds[d].status # "building"

\* C6: every submitted build eventually has status success or failed, on the
\* build server and on the main server.
C6_EventuallyTerminal ==
    /\ \A d \in BuildIds :
         (d \in DOMAIN builds)
             ~> (d \in DOMAIN builds /\ IsTerminal(builds[d].status))
    /\ \A b \in BuildIds :
         (b \in DOMAIN buildJobs)
             ~> (b \in DOMAIN buildJobs /\ IsTerminal(buildJobs[b].status))

\* C7: a startBuild call returns true exactly when its build is waiting and
\* a slot is free; then, in that one step, the build leaves the waiting list
\* and activeBuildCount grows by one, staying within the limit (so only one
\* caller gets the last slot); a call that returns false changes neither.
C7_StartBuildAtomic ==
    [][\A b \in BuildIds :
         (ret'.op = "startBuild" /\ ret'.buildId = b) =>
            LET waiting == \E i \in 1..Len(queue) : queue[i].buildId = b
                free == activeBuildCount < maxConcurrentBuilds
            IN  /\ ret'.value = (waiting /\ free)
                /\ ret'.value =>
                     /\ ~\E i \in 1..Len(queue') : queue'[i].buildId = b
                     /\ Len(queue') = Len(queue) - 1
                     /\ activeBuildCount' = activeBuildCount + 1
                     /\ activeBuildCount' <= maxConcurrentBuilds'
                /\ ~ret'.value =>
                     /\ queue' = queue
                     /\ activeBuildCount' = activeBuildCount]_vars

\* A waiting build has just been refused the slot another build took.
C7_Witness ==
    /\ ret.op = "startBuild" /\ ~ret.value
    /\ FindIndex(queue, ret.buildId) # 0
    /\ activeBuildCount = maxConcurrentBuilds
    /\ activeBuildCount >= 1

C9_DownloadOnlySuccess ==
    /\ [](\A d \in BuildIds :
            /\ d \notin DOMAIN builds => DownloadCode(d) = 404
            /\ (d \in DOMAIN builds
                  /\ (builds[d].status # "success" \/ builds[d].apkPath = ""))
                 => DownloadCode(d) = 400)
    /\ [][\A d \in served' \ served :
            d \in DOMAIN builds /\ builds[d].status = "success"]_vars

\* An artifact has been sent while another build is failed.
C9_Witness ==
    /\ served # {}
    /\ \E d \in DOMAIN builds : builds[d].status = "failed" /\ d \notin served

\* The commands of log keep the order align, sign, verify.
SignOrder(log) ==
    \A i \in 1..Len(log) :
       /\ log[i].op = "apksigner sign"
            => i > 1 /\ log[i - 1] = [op |-> "zipalign", result |-> "ok"]
       /\ log[i].op = "apksigner verify"
            => i > 1 /\ log[i - 1] = [op |-> "apksigner sign", result |-> "ok"]
       /\ log[i].op = "zipalign"
            => \A j \in 1..(i - 1) : log[j].op # "apksigner sign"

\* C10: signAPK invokes sign only after align completed successfully, verify
\* only after sign completed successfully, and never align after sign.
C10_AlignSignVerify == \A d \in BuildIds : SignOrder(execLog[d])

\* One build was signed and verified; the signing of another one failed
\* at the sign step, so verify never ran for it.
C10_Witness ==
    /\ \E d \in BuildIds :
         \E i \in 1..Len(execLog[d]) :
            execLog[d][i] = [op |-> "apksigner verify", result |-> "ok"]
    /\ \E d \in BuildIds :
         /\ Len(execLog[d]) > 0
         /\ execLog[d][Len(execLog[d])] =
              [op |-> "apksigner sign", result |-> "failed"]

\* The commands build d has run include op with this result.
Ran(d, op, result) ==
    \E i \in 1..Len(execLog[d]) : execLog[d][i] = [op |-> op, result |-> result]

\* C11: a build has status success, or an apkPath or apkUrl, only if the
\* verify step of signAPK succeeded for it; a build whose verify step failed
\* is failed and has no artifact, though the sign step produced a file.
C11_SuccessOnlyIfVerified ==
    \A d \in DOMAIN builds :
       /\ (builds[d].status = "success" \/ builds[d].apkPath # ""
             \/ builds[d].apkUrl # "")
            => Ran(d, "apksigner verify", "ok")
       /\ Ran(d, "apksigner verify", "failed")
            => /\ builds[d].status = "failed"
               /\ builds[d].apkPath = "" /\ builds[d].apkUrl = ""

\* A signed file was produced and its verification failed.
C11_Witness ==
    \E d \in DOMAIN builds :
       /\ Ran(d, "apksigner sign", "ok")
       /\ Ran(d, "apksigner verify", "failed")
       /\ builds[d].status = "failed"
       /\ builds[d].errorMessage = "apksigner verify"

\* The builds of project p whose generateKeystore produced a keystore.
Generators(p) ==
    {d \in DOMAIN builds : builds[d].projectId = p /\ Ran(d, "keytool", "ok")}

\* C12: once a config is persisted for a project, the config and the
\* keystore of the project stay as they are, and every later
\* getOrCreateKeystore of the project gets that very config: no step
\* generates a keystore or replaces the config.
C12_KeystoreStable ==
    [][\A p \in ProjectIds :
          keystoreConfigs[p] # 0 =>
             /\ keystoreConfigs'[p] = keystoreConfigs[p]
             /\ keystoreFiles'[p] = keystoreFiles[p]
             /\ Generators(p)' = Generators(p)
             /\ \A d \in DOMAIN builds :
                   (builds[d].projectId = p /\ keystoreOf'[d] # keystoreOf[d])
                      => keystoreOf'[d] = keystoreConfigs[p]]_vars

\* Two builds of one project succeeded, the later one with the config the
\* earlier one had generated and persisted.
C12_Witness ==
    \E d1, d2 \in DOMAIN builds :
       /\ d1 # d2
       /\ builds[d1].projectId = builds[d2].projectId
       /\ builds[d1].status = "success" /\ builds[d2].status = "success"
       /\ keystoreOf[d1] = d1 /\ keystoreOf[d2] = d1
       /\ Ran(d2, "access keystore", "ok")

StepFailed(log) == \E i \in 1..Len(log) : log[i].result = "failed"

\* C14: a pipeline is fail-fast. The step that fails is the last one the
\* pipeline runs; with it the build becomes failed with the error of that
\* step, and the loop of processQueue goes on: it starts the next queued
\* build, or ends when there is none. Later the failed build stays as it is.
C14_FailFast ==
    [][\A d \in DOMAIN builds :
          /\ StepFailed(execLog[d]) =>
                /\ execLog'[d] = execLog[d]
                /\ pipe'[d] = 0
                /\ builds'[d].status = "failed"
          /\ (~StepFailed(execLog[d]) /\ StepFailed(execLog'[d])) =>
                /\ execLog'[d] = Finished(execLog[d], "failed")
                /\ pipe'[d] = 0
                /\ builds'[d].status = "failed"
                /\ builds'[d].errorMessage = execLog[d][Len(execLog[d])].op
                /\ IF buildQueue # <<>>
                   THEN /\ isProcessing'
                        /\ pipe'[Head(buildQueue)] = 1
                        /\ builds'[Head(buildQueue)].status = "building"
                        /\ buildQueue' = Tail(buildQueue)
                   ELSE ~isProcessing']_vars

\* A build failed at a step before the last one of its pipeline, and the
\* build queued behind it is running.
C14_Witness ==
    \E d1, d2 \in DOMAIN builds :
       /\ d1 # d2
       /\ StepFailed(execLog[d1])
       /\ Len(execLog[d1]) < Len(Pipeline(builds[d1].framework)) - 4
       /\ builds[d1].status = "failed"
       /\ builds[d1].errorMessage = execLog[d1][Len(execLog[d1])].op
       /\ pipe[d2] > 0 /\ builds[d2].status = "building"

IsPrefix(s, t) == Len(s) <= Len(t) /\ SubSeq(t, 1, Len(s)) = s

\* The log of every build-server record only grows.
DebLogAppendOnly ==
    [][\A d \in DOMAIN builds : IsPrefix(builds[d].logs, builds'[d].logs)]_vars

\* C15: the log of a build job is append-only: after every update the log
\* it had is a prefix of the log it has, for the record of the build server
\* and for the record of the main server.
C15_LogAppendOnly ==
    [][/\ \A d \in DOMAIN builds : IsPrefix(builds[d].logs, builds'[d].logs)
       /\ \A b \in DOMAIN buildJobs :
             IsPrefix(buildJobs[b].logs, buildJobs'[b].logs)]_vars

\* A body the specification calls malformed.
Malformed(request) == request.framework \notin Frameworks \/ request.files = 0

\* C16: a POST /api/builds whose framework tag is not a supported one, or
\* whose file list is empty, adds no build record and enqueues nothing.
C16_MalformedRejected ==
    [][((received' # received \/ uuid' # uuid) /\ Malformed(received'))
          => (builds' = builds /\ buildQueue' = buildQueue /\ uuid' = uuid)]_vars

\* C17: completeBuild decrements activeBuildCount, never below zero, and a
\* second completeBuild for the same build id, right after the first one,
\* leaves activeBuildCount as the first one left it.
C17_CompleteIdempotent ==
    [][/\ activeBuildCount' >= 0
       /\ (ret'.op = "completeBuild" /\ ret' # ret)
             => activeBuildCount' = Max(0, activeBuildCount - 1)
       /\ (ret.op = "completeBuild" /\ ret' = ret)
             => activeBuildCount' = activeBuildCount]_vars

\* completeBuild decrements and stays at zero.
CompleteDecrementsToZero ==
    [][/\ activeBuildCount' >= 0
       /\ ret'.op = "completeBuild"
             => activeBuildCount' = Max(0, activeBuildCount - 1)]_vars

\* Item a waits before item b by the order of the waiting list.
InOrder(a, b) ==
    \/ a.priority > b.priority
    \/ a.priority = b.priority /\ a.createdAt <= b.createdAt

Sorted(q) == \A i, j \in 1..Len(q) : i < j => InOrder(q[i], q[j])

\* The item add has just put into the list stands behind every item of its
\* priority and enqueue time.
AddedBehindTies ==
    \A b \in BuildIds :
       (ret'.op = "add" /\ ret'.buildId = b /\ FindIndex(queue, b) = 0
          /\ FindIndex(queue', b) # 0)
          => LET k == FindIndex(queue', b) IN
             /\ Splice(queue', k) = queue
             /\ \A j \in 1..Len(queue') :
                   (queue'[j].priority = queue'[k].priority
                      /\ queue'[j].createdAt = queue'[k].createdAt) => j <= k

\* C18: after any sequence of add, remove and startBuild the waiting list
\* is ordered by priority descending and, within a priority, by enqueue
\* time ascending; items of one priority and one enqueue time stand in the
\* order in which they were added.
C18_QueueOrdered == []Sorted(queue) /\ [][AddedBehindTies]_vars

\* A later item of higher priority stands before an earlier one, which is
\* followed by an item of its own priority and enqueue time, and a call of
\* remove or startBuild has taken an item out.
C18_Witness ==
    /\ Len(queue) = 2
    /\ ret.op \in {"remove", "startBuild"} /\ ret.value
    /\ queue[1].priority > queue[2].priority
    /\ queue[1].createdAt > queue[2].createdAt

\* Ties in the list: two items of one priority and one enqueue time.
C18_TieWitness ==
    /\ Len(queue) = 3
    /\ queue[1].priority > queue[2].priority
    /\ queue[2].priority = queue[3].priority
    /\ queue[2].createdAt = queue[3].createdAt

\* C19: remove(buildId) takes a waiting item out of the list and returns
\* true, leaving activeBuildCount, the limit and the order of the other
\* items as they were; for a build that is not waiting (started, or never
\* enqueued) it returns false and changes nothing.
C19_RemoveFrame ==
    [][\A b \in BuildIds :
          (ret' # ret /\ ret'.op = "remove" /\ ret'.buildId = b) =>
             /\ activeBuildCount' = activeBuildCount
             /\ maxConcurrentBuilds' = maxConcurrentBuilds
             /\ IF FindIndex(queue, b) # 0
                THEN /\ ret'.value = TRUE
                     /\ queue' = Splice(queue, FindIndex(queue, b))
                     /\ FindIndex(queue', b) = 0
                ELSE /\ ret'.value = FALSE
                     /\ queue' = queue]_vars

\* remove returned true while two other items of different priority waited
\* and a build was running.
C19_Witness ==
    /\ ret.op = "remove" /\ ret.value
    /\ Len(queue) = 2
    /\ queue[1].priority > queue[2].priority
    /\ activeBuildCount > 0

\* remove returned false for a build that had started.
C19_StartedWitness ==
    /\ ret.op = "remove" /\ ~ret.value
    /\ activeBuildCount > 0
    /\ Len(queue) > 0

\* The moves of a status the state diagram allows (writing the status a
\* record has is no move).
StatusMoves ==
    { <<"pending", "queued">>, <<"queued", "building">>,
      <<"building", "success">>, <<"building", "failed">>,
      <<"queued", "failed">> }

MayMove(from, to) == from = to \/ <<from, to>> \in StatusMoves

\* The status of every build-server record moves along the diagram.
DebStatusMoves ==
    [][\A d \in DOMAIN builds : MayMove(builds[d].status, builds'[d].status)]_vars

\* The status of every main-server record moves along the diagram.
MainStatusMoves ==
    [][\A b \in DOMAIN buildJobs :
          MayMove(buildJobs[b].status, buildJobs'[b].status)]_vars

\* C20: the status of a build job moves only along pending -> queued ->
\* building -> success or failed, queued -> failed, building -> failed,
\* in the record of the main server and in the record of the build server.
C20_StatusMoves ==
    [][/\ \A d \in DOMAIN builds : MayMove(builds[d].status, builds'[d].status)
       /\ \A b \in DOMAIN buildJobs :
             MayMove(buildJobs[b].status, buildJobs'[b].status)]_vars

\* The messages of a sequence that observer o got about build b.
Got(messages, o, b) ==
    SelectSeq(messages, LAMBDA m : m.buildId = b /\ o \in m.to)

C22_NoRetryAfterCancel ==
    [][\A b \in DOMAIN buildJobs :
          (<<"main", b>> \in cancelledQueued /\ proc[b].at = "timer")
             => /\ buildJobs'[b] = buildJobs[b]
                /\ Len(SelectSeq(outbox', LAMBDA m : m.buildId = b))
                     = Len(SelectSeq(outbox, LAMBDA m : m.buildId = b))]_vars

Completed(r) == IsTerminal(r.status) => r.completedAt # 0

\* Between handlers, every terminal record has completedAt.
StoredTerminalHasCompletedAt ==
    /\ \A d \in DOMAIN builds : Completed(builds[d])
    /\ \A b \in DOMAIN buildJobs : Completed(buildJobs[b])

\* C23: a record whose status is success or failed has completedAt set, on
\* the build server and on the main server, in every state a handler leaves
\* and in every state of the record a handler has sent to the observers
\* (the record as the poll callback has just written it is one).
C23_TerminalHasCompletedAt ==
    /\ \A d \in DOMAIN builds : Completed(builds[d])
    /\ \A b \in DOMAIN buildJobs : Completed(buildJobs[b])
    /\ \A i \in 1..Len(outbox) : Completed(outbox[i].build)

\* C24: startedAt and completedAt are set at most once: a step leaves a
\* startedAt or a completedAt that has a value as it is, in the records of
\* the build server and of the main server.
C24_TimestampsSetOnce ==
    [][/\ \A d \in DOMAIN builds \cap DOMAIN builds' :
             /\ builds[d].startedAt # 0
                   => builds'[d].startedAt = builds[d].startedAt
             /\ builds[d].completedAt # 0
                   => builds'[d].completedAt = builds[d].completedAt
       /\ \A b \in DOMAIN buildJobs \cap DOMAIN buildJobs' :
             buildJobs[b].completedAt # 0
                => buildJobs'[b].completedAt = buildJobs[b].completedAt]_vars

\* startedAt of a build-server record is set once.
StartedAtSetOnce ==
    [][\A d \in DOMAIN builds \cap DOMAIN builds' :
          builds[d].startedAt # 0
             => builds'[d].startedAt = builds[d].startedAt]_vars

\* errorMessage only with status failed, artifact only with status success.
FieldsFitStatus(r, artifact) ==
    /\ r.errorMessage # "" => r.status = "failed"
    /\ artifact # "" => r.status = "success"

\* C25: a record has an errorMessage only when its status is failed and an
\* artifact location (apkPath, apkUrl) only when its status is success, on
\* the build server and on the main server.
C25_ErrorAndArtifactFitStatus ==
    /\ \A d \in DOMAIN builds :
          /\ FieldsFitStatus(builds[d], builds[d].apkPath)
          /\ FieldsFitStatus(builds[d], builds[d].apkUrl)
    /\ \A b \in DOMAIN buildJobs :
          FieldsFitStatus(buildJobs[b], buildJobs[b].apkUrl)

\* C26: the progress of a build that is being processed is an integer in
\* 0..100, no step decreases the progress of a build (a progress that is
\* not set counts as below every value), and progress is 100 exactly when
\* the status is success.
C26_ProgressMonotone ==
    /\ [] \A d \in DOMAIN builds :
             /\ builds[d].progress \in {Null} \cup 0..100
             /\ builds[d].status \in {"building", "success"}
                   => builds[d].progress \in 0..100
             /\ builds[d].progress = 100 <=> builds[d].status = "success"
    /\ [][\A d \in DOMAIN builds \cap DOMAIN builds' :
             builds'[d].progress >= builds[d].progress]_vars

\* One build has succeeded with progress 100 and the next one is part of
\* the way through its pipeline.
C26_Witness ==
    \E d1, d2 \in DOMAIN builds :
       /\ builds[d1].status = "success" /\ builds[d1].progress = 100
       /\ builds[d2].status = "building"
       /\ builds[d2].progress > 10 /\ builds[d2].progress < 90

\* C27: every item of the waiting list of the main server belongs to a
\* build job that exists and whose status is queued.
C27_QueueItemsAreQueuedJobs ==
    \A i \in 1..Len(queue) :
       /\ queue[i].buildId \in DOMAIN buildJobs
       /\ buildJobs[queue[i].buildId].status = "queued"

\* The observers that are connected (their socket is not closed) and
\* subscribed to build id b.
Subscribers(b) ==
    {o \in Observers : sockets[o].readyState # "closed" /\ sockets[o].buildId = b}

\* C28: every build id in buildConnections maps to a set of observers that
\* is not empty, namely the connected observers subscribed to it; so a build
\* id is in the map exactly when some connected observer subscribed to it.
C28_ConnectionsMatchSubscribers ==
    /\ \A b \in DOMAIN buildConnections :
          buildConnections[b] # {} /\ buildConnections[b] = Subscribers(b)
    /\ \A b \in BuildIds : b \in DOMAIN buildConnections <=> Subscribers(b) # {}

\* Of two observers of one build one has disconnected and the entry is kept,
\* while the entry of another build went with its last observer.
C28_Witness ==
    \E b1, b2 \in BuildIds, o1, o2, o3 \in Observers :
       /\ b1 # b2
       /\ sockets[o1] = Socket("open", b1)
       /\ sockets[o2] = Socket("closed", b1)
       /\ sockets[o3] = Socket("closed", b2)
       /\ buildConnections[b1] = {o1}
       /\ b2 \notin DOMAIN buildConnections

\* signAPK has thrown for the build that ran the commands of log.
SignFailed(log) ==
    \E i \in 1..Len(log) :
       /\ log[i].op \in {"zipalign", "apksigner sign", "apksigner verify"}
       /\ log[i].result = "failed"

\* After a signAPK that returned, only the signed artifact is left.
SignSuccessCleansUp ==
    \A d \in DOMAIN builds :
       Ran(d, "apksigner verify", "ok")
          => ApkFiles(execLog[d]) \in {{"signed"}, {"final"}}

\* C29: when signAPK has returned, the unsigned and the aligned file are
\* gone and the signed artifact is there; when align, sign or verify has
\* failed, no intermediate is left: not the unsigned copy, not the aligned
\* file, not the signed file.
C29_SignCleansUp ==
    \A d \in DOMAIN builds :
       /\ Ran(d, "apksigner verify", "ok")
             => ApkFiles(execLog[d]) \in {{"signed"}, {"final"}}
       /\ SignFailed(execLog[d]) => ApkFiles(execLog[d]) = {}

\* Build d has started the command op.
Began(d, op) == \E i \in 1..Len(execLog[d]) : execLog[d][i].op = op

\* C30: a getOrCreateKeystore that finds the persisted config and the
\* keystore file of its project returns that config and writes nothing: the
\* keystore directory is as it was and neither keytool nor the write of a
\* config is started. A keystore is generated, and a config persisted, only
\* by a call that found the config or the keystore file missing.
C30_ReadPathPure ==
    [][\A d \in DOMAIN builds :
          LET p == builds[d].projectId
          IN  /\ (~Ran(d, "access keystore", "ok")
                    /\ Ran(d, "access keystore", "ok")')
                    => /\ keystoreConfigs[p] # 0 /\ keystoreFiles[p] # 0
                       /\ keystoreConfigs' = keystoreConfigs
                       /\ keystoreFiles' = keystoreFiles
                       /\ keystoreOf'[d] = keystoreConfigs[p]
                       /\ ~Began(d, "keytool")'
                       /\ ~Began(d, "writeFile config")'
              /\ (~Began(d, "keytool") /\ Began(d, "keytool")')
                    => /\ keystoreConfigs[p] = 0 \/ keystoreFiles[p] = 0
                       /\ \/ Ran(d, "readFile config", "absent")'
                          \/ Ran(d, "access keystore", "absent")'
              /\ (keystoreConfigs'[p] = d /\ keystoreConfigs[p] # d)
                    => /\ Ran(d, "keytool", "ok")
                       /\ ~Ran(d, "access keystore", "ok")]_vars

\* A build has read the config an earlier build of its project persisted,
\* found the keystore, and gone on to align its APK without generating
\* anything.
C30_Witness ==
    \E d1, d2 \in DOMAIN builds :
       /\ d1 # d2
       /\ builds[d1].projectId = builds[d2].projectId
       /\ keystoreConfigs[builds[d2].projectId] = d1
       /\ keystoreFiles[builds[d2].projectId] = d1
       /\ Ran(d2, "readFile config", "ok")
       /\ Ran(d2, "access keystore", "ok")
       /\ Ran(d2, "zipalign", "running")
       /\ keystoreOf[d2] = d1
       /\ ~Began(d2, "keytool")

\* A run of cleanupOldBuilds deletes exactly the builds that are terminal
\* and more than 24 hours old, and changes no other build.
SweepEvictsTerminalAged ==
    [][(DOMAIN builds \ DOMAIN builds' # {})
          => /\ DOMAIN builds \ DOMAIN builds' = Swept
             /\ \A d \in DOMAIN builds \ Swept : builds'[d] = builds[d]]_vars

\* C31: cleanupOldBuilds deletes a build record iff its status is success or
\* failed and it was created more than 24 hours ago, leaves every other
\* build unchanged, and deletes no build whose pipeline is still executing.
C31_SweepEvictsOnlyFinished ==
    [][(DOMAIN builds \ DOMAIN builds' # {})
          => /\ DOMAIN builds \ DOMAIN builds' = Swept
             /\ \A d \in DOMAIN builds \ Swept : builds'[d] = builds[d]
             /\ \A d \in Swept : pipe[d] = 0]_vars

\* The builds the main server has admitted (startBuild returned true) whose
\* processBuild has not called completeBuild yet.
Admitted ==
    {b \in BuildIds : proc[b].at \in {"submit", "submitError", "submitted", "poll"}}

Executing == {d \in BuildIds : pipe[d] > 0}

\* C33: in the build server a loop of processQueue is active exactly while
\* isProcessing is set, at most one pipeline executes and at most one build
\* has status building, whatever the order of submitBuild and cancelBuild
\* calls; and builds are started in the order they were submitted: when a
\* build starts, no build submitted before it is still waiting.
C33_OnePipelineFifo ==
    /\ [] /\ Cardinality(Executing) <= 1
          /\ isProcessing <=> Executing # {}
          /\ Cardinality({d \in DOMAIN builds :
                             builds[d].status = "building"}) <= 1
          /\ \A d \in DOMAIN builds :
                builds[d].status = "building" => d \in Executing
    /\ [][\A d \in DOMAIN builds \cap DOMAIN builds' :
             (builds[d].startedAt = 0 /\ builds'[d].startedAt # 0)
                => \A i \in 1..Len(buildQueue) :
                      buildQueue[i] < d => builds'[buildQueue[i]].startedAt # 0]_vars

\* A build submitted while the pipeline of an earlier one ran has waited for
\* it and is building now; the earlier build, cancelled meanwhile, has ended.
C33_Witness ==
    \E d1, d2 \in DOMAIN builds :
       /\ d1 < d2
       /\ builds[d1].errorMessage = "Build cancelled by user"
       /\ IsTerminal(builds[d1].status) /\ pipe[d1] = 0 /\ execLog[d1] # <<>>
       /\ builds[d2].status = "building" /\ pipe[d2] > 1
       /\ isProcessing

\* C34: processBuild is entered for a build only after the loop of
\* submitBuild that writes the files of that build has completed: no build
\* that is started, or whose pipeline executes, has its submitBuild still
\* writing files.
C34_StartsAfterFilesWritten ==
    \A d \in DOMAIN builds :
       d \in staging => (builds[d].startedAt = 0 /\ pipe[d] = 0)

\* pollBuildStatus settles with a terminal status or an error: when
\* processBuild leaves its poll, the record is terminal.
PollSettlesTerminal ==
    [][\A b \in DOMAIN buildJobs :
          (proc[b].at = "poll" /\ proc'[b].at = "done")
             => IsTerminal(buildJobs'[b].status)]_vars

\* C35: pollBuildStatus resolves only with a terminal status, and once it has
\* resolved or rejected, the answer of a status request still in flight does
\* not reach onUpdate: it changes no record and sends no message, so no
\* non-terminal status is written after the terminal one.
C35_NoUpdateAfterSettled ==
    [][/\ \A b \in DOMAIN buildJobs :
             (proc[b].at = "poll" /\ proc'[b].at = "done")
                => IsTerminal(buildJobs'[b].status)
       /\ \A r \in polls \ polls' :
             proc[r.b].at # "poll"
                => /\ buildJobs' = buildJobs
                   /\ outbox' = outbox]_vars

\* C36: every build of the build server with status success has its apkPath
\* and apkUrl recorded and progress 100, and the download route does not
\* answer 400 ("APK not available") for it.
C36_SuccessHasArtifact ==
    \A d \in DOMAIN builds :
       builds[d].status = "success"
          => /\ builds[d].apkPath # "" /\ builds[d].apkUrl # ""
             /\ builds[d].progress = 100
             /\ DownloadCode(d) # 400

\* A build cancelled while it was building has ended with success all the
\* same, and its APK can be downloaded.
C36_Witness ==
    \E d \in DOMAIN builds :
       /\ builds[d].status = "success"
       /\ builds[d].errorMessage = "Build cancelled by user"
       /\ pipe[d] = 0
       /\ DownloadCode(d) = 200

====
